---- MODULE Spec2Model ----
(***************************************************************************)
(* The real-time data synchronization client of the solar dashboard:       *)
(* ApiClient (lib/api-client) = EventBus (on/off/emit) + RequestExecutor   *)
(* (request, updateConnectionStatus) + StreamManager (connectWebSocket,    *)
(* disconnectWebSocket and the four socket handlers).                      *)
(*                                                                         *)
(* JavaScript runs one task at a time, so every action below is one task   *)
(* of the event loop: a public call, one continuation of the async         *)
(* request() between two awaits, one socket event, or one timer firing.    *)
(***************************************************************************)
EXTENDS Integers, Sequences, FiniteSets, TLC

\* ------------------------------------------------------------------ bounds
MaxRetry == 3          \* config.retryAttempts is drawn from 0..MaxRetry
MaxListeners == 2      \* registrations held by the registry at one time
MaxSockets == 2        \* WebSocket objects created in one behaviour
MaxTimers == 1         \* reconnect timers pending at one time
MaxErrors == 1         \* a request starts only while errorCount <= MaxErrors
MaxTicks == 3          \* clock ticks observed while one fetch is in flight
TickMs == 5000         \* granularity of the clock, in ms

\* ------------------------------------------------------- program constants
Timeout == 10000        \* defaultConfig.timeout
BackoffBase == 1000     \* the factor of Math.pow(2, attempt) * 1000
ReconnectDelay == 5000  \* setTimeout(() => this.connectWebSocket(), 5000)

\* --------------------------------------------------------------- vocabulary
\* WSMessage['type']
EnvelopeTypes == {"telemetry", "alert", "system_status", "connection_status"}

\* every event name the client itself passes to emit()
EventTypes == EnvelopeTypes \cup {"ws_connected", "ws_disconnected", "ws_error"}

\* The callbacks a collaborator may hand to on(): one that returns, one that
\* throws, one that unregisters itself while it runs.
Callbacks == {"cbPlain", "cbThrows", "cbOffSelf"}

\* WebSocket.readyState
ReadyStates == {"CONNECTING", "OPEN", "CLOSING", "CLOSED"}

\* What event.data of an inbound frame can be: text JSON.parse rejects
\* ("malformed", such as "{"), the JSON text null (message.type then throws),
\* or a JSON object whose "type" member is an event name or some other
\* string: with "data" and "timestamp" members ("object") or with no
\* "data" member ("partial").
Frames ==
    {[kind |-> "malformed", type |-> "none"], [kind |-> "json_null", type |-> "none"]}
        \cup {[kind |-> k, type |-> t] :
                k \in {"object", "partial"}, t \in EventTypes \cup {"other"}}

\* bounds of the data the server sends
MaxVersions == 1       \* distinct contents of one resource, 1..MaxVersions

MaxSubscribers == 3    \* listeners of one event in the dispatch specification
MaxInflight == 1       \* fetches of one hook that await their response
MaxSuperseded == 1     \* fetches in flight for a plant the hook no longer asks for
MaxAlerts == 2         \* alerts a useAlerts list holds before pushes stop

\* plant ids (PlantTelemetry.id) and alert ids (AlertNotification.id)
PlantIds == {"A", "B"}
AlertIds == {"a1"}
Versions == 1..MaxVersions

\* message.data of an "object" frame of the given type, as the server sends
\* it: PlantTelemetry, SystemHealth, AlertNotification, a status object, or
\* anything else. src tells the deliveries of the stream from those of a
\* fetch (history).
PayloadsOf(type) ==
    CASE type = "telemetry" ->
             {[kind |-> "telemetry", src |-> "push", id |-> p, v |-> v] :
                 p \in PlantIds, v \in Versions}
      [] type = "system_status" ->
             {[kind |-> "health", src |-> "push", v |-> v] : v \in Versions}
      [] type = "alert" ->
             {[kind |-> "alert", src |-> "push", id |-> a] : a \in AlertIds}
      [] OTHER -> {[kind |-> "other"]}

\* the frame has the shape of WSMessage
MatchesEnvelope(frame) == frame.kind = "object" /\ frame.type \in EnvelopeTypes

\* a frame that is no JSON ("{"), and a valid telemetry envelope
MalformedFrame == [kind |-> "malformed", type |-> "none"]
TelemetryFrame == [kind |-> "object", type |-> "telemetry"]

\* Date.now() - startTime, in ms; 0 is the falsy value of `latency || ...`
Latencies == {0, 40}

VARIABLES
    config,            \* ApiClient.config: retryAttempts, wsUrl (set or not)
    connectionStatus,  \* ApiClient.connectionStatus
    listeners,         \* ApiClient.listeners: Map<string, Function[]>
    ws,                \* ApiClient.ws: 0 is null, else an index of sockets
    sockets,           \* readyState of every WebSocket created so far
    timers,            \* pending setTimeout(connectWebSocket, 5000) timers
    req,               \* the request() call in progress
    lastEmit,          \* history: what the task that ran last emitted
    disconnected,      \* history: disconnectWebSocket() was the last
                       \* explicit connect/disconnect call
    useConnectionStatus,   \* the component instance of each hook of
    usePlantTelemetry,     \* use-api.ts: whether it is mounted, its
    useSystemHealth,       \* useState values (the snapshot it returns),
    useAlerts,             \* its fetches awaiting a response and its
    useWebSocket           \* interval timer

hookVars == <<useConnectionStatus, usePlantTelemetry, useSystemHealth, useAlerts,
              useWebSocket>>

vars == <<config, connectionStatus, listeners, ws, sockets, timers, req,
          lastEmit, disconnected, hookVars>>

streamVars == <<ws, sockets, timers, disconnected>>

\* ------------------------------------------------------------ EventBus
\* History of one task: the frame it handled (onmessage only), the event
\* and the data of its last emit() with the listener list at the start of
\* that emit (snapshot), the callbacks the emit invoked, in order
\* (delivered), whether a callback threw out of the emit, and whether the
\* exception left the task's handler uncaught (escaped).
NoEmit ==
    [frame |-> "none", event |-> "none", data |-> [kind |-> "none"], snapshot |-> <<>>,
     delivered |-> <<>>, threw |-> FALSE, escaped |-> FALSE]

\* the value of a member that is missing
Undefined == [kind |-> "undefined"]

\* listeners.get(event), with <<>> standing for undefined
Get(reg, e) == IF e \in DOMAIN reg THEN reg[e] ELSE <<>>

\* number of registrations in the whole registry
RECURSIVE SumLen(_, _)
SumLen(reg, es) ==
    IF es = {} THEN 0
    ELSE LET e == CHOOSE x \in es : TRUE
         IN Len(reg[e]) + SumLen(reg, es \ {e})

Registered(reg) == SumLen(reg, DOMAIN reg)

\* Array.prototype.indexOf, 1-based; 0 stands for -1
IndexOf(lst, cb) ==
    IF \E i \in 1..Len(lst) : lst[i] = cb
    THEN CHOOSE i \in 1..Len(lst) : lst[i] = cb /\ \A j \in 1..(i - 1) : lst[j] # cb
    ELSE 0

\* eventListeners.splice(index, 1)
Splice(lst, i) == SubSeq(lst, 1, i - 1) \o SubSeq(lst, i + 1, Len(lst))

\* on(event, callback)
OnReg(reg, e, cb) ==
    IF e \in DOMAIN reg
    THEN [reg EXCEPT ![e] = Append(@, cb)]
    ELSE [x \in DOMAIN reg \cup {e} |-> IF x = e THEN <<cb>> ELSE reg[x]]

\* off(event, callback) without the index > -1 test: splice(-1, 1) removes
\* the last element of the list
OffRegUnguarded(reg, e, cb) ==
    IF e \in DOMAIN reg /\ Len(reg[e]) > 0
    THEN [reg EXCEPT ![e] = IF IndexOf(@, cb) > 0 THEN Splice(@, IndexOf(@, cb))
                             ELSE SubSeq(@, 1, Len(@) - 1)]
    ELSE reg

\* off(event, callback)
OffReg(reg, e, cb) ==
    IF e \in DOMAIN reg /\ IndexOf(reg[e], cb) > 0
    THEN [reg EXCEPT ![e] = Splice(@, IndexOf(reg[e], cb))]
    ELSE reg

\* callback(data): what running one callback does to the registry, and
\* whether it throws. cbOnNew registers cbNew for the event it is called
\* with, unless cbNew is registered for it already. handleTelemetryUpdate reads update.id, which throws a
\* TypeError when the data is undefined.
Invoke(reg, e, cb, data) ==
    CASE cb = "cbThrows" -> [reg |-> reg, threw |-> TRUE]
      [] cb = "cbOffSelf" -> [reg |-> OffReg(reg, e, cb), threw |-> FALSE]
      [] cb = "cbOnNew" ->
             [reg |-> IF IndexOf(reg[e], "cbNew") = 0 THEN OnReg(reg, e, "cbNew")
                      ELSE reg,
              threw |-> FALSE]
      [] cb = "handleTelemetryUpdate" -> [reg |-> reg, threw |-> (data = Undefined)]
      [] OTHER -> [reg |-> reg, threw |-> FALSE]

\* eventListeners.forEach(callback => callback(data)): forEach reads the
\* length once, then visits the indices below it that the live array still
\* has; an exception ends the loop.
RECURSIVE ForEach(_, _, _, _, _, _)
ForEach(reg, e, k, len, acc, data) ==
    IF k > len \/ k > Len(reg[e])
    THEN [reg |-> reg, delivered |-> acc, threw |-> FALSE]
    ELSE LET cb == reg[e][k]
             r == Invoke(reg, e, cb, data)
         IN IF r.threw
            THEN [reg |-> r.reg, delivered |-> Append(acc, cb), threw |-> TRUE]
            ELSE ForEach(r.reg, e, k + 1, len, Append(acc, cb), data)

\* emit(event, data)
Emit(reg, e, data) ==
    LET r == IF e \in DOMAIN reg
             THEN ForEach(reg, e, 1, Len(reg[e]), <<>>, data)
             ELSE [reg |-> reg, delivered |-> <<>>, threw |-> FALSE]
    IN [reg |-> r.reg, threw |-> r.threw,
        log |-> [frame |-> "none", event |-> e, data |-> data, snapshot |-> Get(reg, e),
                 delivered |-> r.delivered, threw |-> r.threw, escaped |-> r.threw]]

\* ----------------------------------------------------- hooks: state
\* null, the initial value of data, error and lastUpdated
Null == [kind |-> "null"]

\* the handlers the hooks register with apiClient.on
HookHandlers ==
    {"handleStatusChange", "handleTelemetryUpdate", "handleSystemUpdate",
     "handleNewAlert", "handleConnected", "handleDisconnected"}

\* a useState setter that sets always, mounted or not
SetStateAlways(live, old, new) == new

\* a useState setter called with `new`: React applies it to a mounted
\* component instance and ignores it once the instance is unmounted
SetState(live, old, new) == IF live THEN new ELSE old

\* the callback cb was invoked by the emit of event e that log describes
Invoked(log, e, cb) ==
    log.event = e /\ \E k \in 1..Len(log.delivered) : log.delivered[k] = cb

\* useConnectionStatus: handleStatusChange does setStatus(newStatus)
StatusHandled(h, log) ==
    IF Invoked(log, "connection_status", "handleStatusChange")
    THEN [h EXCEPT !.status = SetState(h.mounted, @, log.data)]
    ELSE h

\* a timestamp: the clock it was read from (the timestamp member of the
\* pushed payload, the one request() gave the response, or Date now in the
\* hook) and the delivery it came with
Stamp(clock, delivery) == [kind |-> "stamp", clock |-> clock, of |-> delivery]

\* a handleTelemetryUpdate that sets the data and leaves lastUpdated
TelemetryHandledDataOnly(h, log) ==
    IF /\ Invoked(log, "telemetry", "handleTelemetryUpdate")
       /\ log.data # Undefined
       /\ log.data.id = h.plantId
    THEN [h EXCEPT !.data = SetState(h.mounted, @, log.data)]
    ELSE h

\* usePlantTelemetry: handleTelemetryUpdate applies an update of the plant
\* asked for, setData(update) and setLastUpdated(update.timestamp)
TelemetryHandled(h, log) ==
    IF /\ Invoked(log, "telemetry", "handleTelemetryUpdate")
       /\ log.data # Undefined
       /\ log.data.id = h.plantId
    THEN [h EXCEPT !.data = SetState(h.mounted, @, log.data),
                   !.lastUpdated = SetState(h.mounted, @, Stamp("payload", log.data))]
    ELSE h

\* useSystemHealth: handleSystemUpdate does setData(update)
HealthHandled(h, log) ==
    IF Invoked(log, "system_status", "handleSystemUpdate")
    THEN [h EXCEPT !.data = SetState(h.mounted, @, log.data)]
    ELSE h

\* useAlerts: handleNewAlert does setAlerts(prev => [alert, ...prev])
AlertsHandled(h, log) ==
    IF Invoked(log, "alert", "handleNewAlert")
    THEN [h EXCEPT !.alerts = SetState(h.mounted, @, <<log.data>> \o @)]
    ELSE h

\* useWebSocket: handleConnected and handleDisconnected set isConnected
WebSocketHandled(h, log) ==
    IF Invoked(log, "ws_connected", "handleConnected")
    THEN [h EXCEPT !.isConnected = SetState(h.mounted, @, TRUE)]
    ELSE IF Invoked(log, "ws_disconnected", "handleDisconnected")
    THEN [h EXCEPT !.isConnected = SetState(h.mounted, @, FALSE)]
    ELSE h

\* what the handlers an emit invoked did to the hooks
HandleEmit(log) ==
    /\ useConnectionStatus' = StatusHandled(useConnectionStatus, log)
    /\ usePlantTelemetry' = TelemetryHandled(usePlantTelemetry, log)
    /\ useSystemHealth' = HealthHandled(useSystemHealth, log)
    /\ useAlerts' = AlertsHandled(useAlerts, log)
    /\ useWebSocket' = WebSocketHandled(useWebSocket, log)

\* a collaborator calls apiClient.on(event, callback)
On(e, cb) ==
    /\ Registered(listeners) < MaxListeners
    /\ listeners' = OnReg(listeners, e, cb)
    /\ lastEmit' = NoEmit
    /\ UNCHANGED <<config, connectionStatus, req, streamVars>>
    /\ UNCHANGED hookVars

\* the callbacks of the collaborators that subscribe during a dispatch
DispatchCallbacks == {"cbPlain", "cbOffSelf", "cbOnNew"}

\* a collaborator subscribes to 'telemetry', up to MaxSubscribers of them
Subscribe(cb) ==
    /\ Len(Get(listeners, "telemetry")) < MaxSubscribers
    /\ listeners' = OnReg(listeners, "telemetry", cb)
    /\ lastEmit' = NoEmit
    /\ UNCHANGED <<config, connectionStatus, req, streamVars>>
    /\ UNCHANGED hookVars

\* a collaborator calls apiClient.off(event, callback)
Off(e, cb) ==
    /\ listeners' = OffReg(listeners, e, cb)
    /\ lastEmit' = NoEmit
    /\ UNCHANGED hookVars
    /\ UNCHANGED <<config, connectionStatus, req, streamVars>>

\* ------------------------------------------------------- RequestExecutor
\* The request() call: pc is where it waits (fetching: await fetch;
\* decoding: await response.json(); backoff: the setTimeout before a retry),
\* attempt is the loop variable, result is what the returned promise
\* settled to. History: fetches counts the calls of fetch, delays lists the
\* backoff delays, elapsed is the time the current fetch has been in
\* flight, got2xx tells that some attempt was answered with a 2xx response.
IdleRequest ==
    [pc |-> "idle", attempt |-> 0, fetches |-> 0, result |-> "none",
     error |-> "none", delays |-> <<>>, elapsed |-> 0, got2xx |-> FALSE]

\* 2^n, as Math.pow(2, attempt)
RECURSIVE Pow2(_)
Pow2(n) == IF n = 0 THEN 1 ELSE 2 * Pow2(n - 1)

\* the delay of the setTimeout before the retry that follows attempt i
BackoffDelay(i) == Pow2(i) * BackoffBase

\* the data of a 'connection_status' event: the status object
StatusData(st) ==
    [kind |-> "status", connected |-> st.connected, latency |-> st.latency,
     errorCount |-> st.errorCount]

\* updateConnectionStatus(connected, latency?): latency 0 stands for a
\* falsy argument; the emit of 'connection_status' is part of the call.
UpdateConnectionStatus(status, reg, connected, latency) ==
    LET st == [connected |-> connected,
               latency |-> IF latency # 0 THEN latency ELSE status.latency,
               errorCount |-> IF connected THEN 0 ELSE status.errorCount]
        em == Emit(reg, "connection_status", StatusData(st))
    IN [status |-> st, reg |-> em.reg, threw |-> em.threw, log |-> em.log]

\* the catch block keeping the error of the first failed attempt
CatchKeepsFirstError(status, reg, log, rq, err) ==
    LET counted == [status EXCEPT !.errorCount = @ + 1]
        first == IF rq.error = "none" THEN err ELSE rq.error
    IN IF rq.attempt = config.retryAttempts
       THEN LET u == UpdateConnectionStatus(counted, reg, FALSE, 0)
            IN [status |-> u.status, reg |-> u.reg, log |-> u.log, tried |-> log,
                req |-> [rq EXCEPT !.pc = "done",
                                   !.result = IF u.threw THEN "rejected" ELSE "failure",
                                   !.error = IF u.threw THEN "listener" ELSE first]]
       ELSE [status |-> counted, reg |-> reg, log |-> log, tried |-> log,
             req |-> [rq EXCEPT !.pc = "backoff",
                                !.error = first,
                                !.delays = Append(@, BackoffDelay(rq.attempt))]]

\* the catch block of request(), entered with the error err; status, reg
\* and rq are the state the try block left, log its last emit
Catch(status, reg, log, rq, err) ==
    LET counted == [status EXCEPT !.errorCount = @ + 1]
    IN IF rq.attempt = config.retryAttempts
       THEN LET u == UpdateConnectionStatus(counted, reg, FALSE, 0)
            IN [status |-> u.status, reg |-> u.reg, log |-> u.log, tried |-> log,
                req |-> [rq EXCEPT !.pc = "done",
                                   !.result = IF u.threw THEN "rejected" ELSE "failure",
                                   !.error = IF u.threw THEN "listener" ELSE err]]
       ELSE [status |-> counted, reg |-> reg, log |-> log, tried |-> log,
             req |-> [rq EXCEPT !.pc = "backoff",
                                !.error = err,
                                !.delays = Append(@, BackoffDelay(rq.attempt))]]

\* the end of one task of request(): tried is the emit of the try block,
\* log the last emit of the task
ApplyRequestStep(r) ==
    /\ connectionStatus' = r.status
    /\ listeners' = r.reg
    /\ lastEmit' = r.log
    /\ req' = [r.req EXCEPT !.elapsed = 0]   \* no fetch is in flight any more
    /\ useConnectionStatus' =
           StatusHandled(StatusHandled(useConnectionStatus, r.tried), r.log)
    /\ UNCHANGED <<config, streamVars, usePlantTelemetry, useSystemHealth, useAlerts,
                   useWebSocket>>

\* a collaborator calls one of the API methods: request() runs up to its
\* first await, the fetch of attempt 0
StartRequest ==
    /\ req.pc \in {"idle", "done"}
    /\ connectionStatus.errorCount <= MaxErrors
    /\ req' = [IdleRequest EXCEPT !.pc = "fetching", !.fetches = 1]
    /\ lastEmit' = NoEmit
    /\ UNCHANGED <<config, connectionStatus, listeners, streamVars>>
    /\ UNCHANGED hookVars

\* time passes while the fetch of the current attempt is in flight
Tick ==
    /\ req.pc = "fetching"
    /\ req.elapsed < MaxTicks * TickMs
    /\ req' = [req EXCEPT !.elapsed = @ + TickMs]
    /\ lastEmit' = NoEmit
    /\ UNCHANGED <<config, connectionStatus, listeners, streamVars>>
    /\ UNCHANGED hookVars

\* await fetch(...) rejects: a transport error
FetchRejects ==
    /\ req.pc = "fetching"
    /\ ApplyRequestStep(Catch(connectionStatus, listeners, NoEmit, req, "network"))

\* await fetch(...) resolves with a response whose ok flag is `ok`:
\* updateConnectionStatus(true, latency) runs before response.ok is read,
\* and a listener's exception lands in the catch block like any other
FetchResolves(ok, latency) ==
    /\ req.pc = "fetching"
    /\ LET u == UpdateConnectionStatus(connectionStatus, listeners, TRUE, latency)
           rq == [req EXCEPT !.got2xx = @ \/ ok]
       IN IF u.threw
          THEN ApplyRequestStep(Catch(u.status, u.reg,
                                      [u.log EXCEPT !.escaped = FALSE], rq, "listener"))
          ELSE IF ~ok
          THEN ApplyRequestStep(Catch(u.status, u.reg, u.log, rq, "http"))
          ELSE ApplyRequestStep([status |-> u.status, reg |-> u.reg, log |-> u.log,
                                 tried |-> u.log,
                                 req |-> [rq EXCEPT !.pc = "decoding"]])

\* await response.json() resolves (good) or rejects
JsonSettles(good) ==
    /\ req.pc = "decoding"
    /\ IF good
       THEN ApplyRequestStep([status |-> connectionStatus, reg |-> listeners,
                              log |-> NoEmit, tried |-> NoEmit,
                              req |-> [req EXCEPT !.pc = "done", !.result = "success",
                                                  !.error = "none"]])
       ELSE ApplyRequestStep(Catch(connectionStatus, listeners, NoEmit, req, "json"))

\* the backoff timer fires: the loop goes on to the next attempt's fetch
BackoffElapsed ==
    /\ req.pc = "backoff"
    /\ req' = [req EXCEPT !.pc = "fetching", !.attempt = @ + 1, !.fetches = @ + 1,
                          !.elapsed = 0]
    /\ lastEmit' = NoEmit
    /\ UNCHANGED <<config, connectionStatus, listeners, streamVars>>
    /\ UNCHANGED hookVars

\* --------------------------------------------------------- StreamManager
\* this.ws?.readyState === WebSocket.OPEN
WsIsOpen == ws # 0 /\ sockets[ws] = "OPEN"

\* connectWebSocket() without the readyState test
ConnectReturnsOnlyWithoutUrl == ~config.wsUrl

\* connectWebSocket() returns at its first line
ConnectReturnsEarly == ~config.wsUrl \/ WsIsOpen

\* the body of connectWebSocket()
ConnectBody ==
    IF ConnectReturnsEarly
    THEN UNCHANGED <<ws, sockets>>
    ELSE /\ sockets' = Append(sockets, "CONNECTING")
         /\ ws' = Len(sockets) + 1

\* a collaborator calls connectWebSocket(): useWebSocket on mount, Page's
\* effect, or the connect() the hook returns
ConnectWebSocket ==
    /\ ConnectReturnsEarly \/ Len(sockets) < MaxSockets
    /\ ConnectBody
    /\ disconnected' = FALSE
    /\ lastEmit' = NoEmit
    /\ UNCHANGED <<config, connectionStatus, listeners, timers, req>>
    /\ UNCHANGED hookVars

\* the timer set by onclose fires: () => this.connectWebSocket()
ReconnectTimerFires ==
    /\ timers > 0
    /\ ConnectReturnsEarly \/ Len(sockets) < MaxSockets
    /\ timers' = timers - 1
    /\ ConnectBody
    /\ lastEmit' = NoEmit
    /\ UNCHANGED <<config, connectionStatus, listeners, req, disconnected>>
    /\ UNCHANGED hookVars

\* WebSocket.close(): a socket that is connecting or open starts closing
CloseSocket(socks, i) ==
    IF socks[i] \in {"CONNECTING", "OPEN"} THEN [socks EXCEPT ![i] = "CLOSING"] ELSE socks

\* a collaborator calls disconnectWebSocket()
DisconnectWebSocket ==
    /\ IF ws # 0
       THEN /\ sockets' = CloseSocket(sockets, ws)
            /\ ws' = 0
       ELSE UNCHANGED <<ws, sockets>>
    /\ disconnected' = TRUE
    /\ lastEmit' = NoEmit
    /\ UNCHANGED <<config, connectionStatus, listeners, timers, req>>
    /\ UNCHANGED hookVars

\* socket i opens: onopen emits 'ws_connected'
SocketOpens(i) ==
    /\ sockets[i] = "CONNECTING"
    /\ sockets' = [sockets EXCEPT ![i] = "OPEN"]
    /\ LET em == Emit(listeners, "ws_connected", [kind |-> "true"])
       IN /\ listeners' = em.reg
          /\ lastEmit' = em.log
          /\ HandleEmit(em.log)
    /\ UNCHANGED <<config, connectionStatus, req, ws, timers, disconnected>>

\* socket i is closed: the connection failed or was lost (failed: the error
\* event is fired first) or the closing handshake of close() ended. onerror
\* emits 'ws_error'; onclose emits 'ws_disconnected' and then sets the
\* reconnect timer, which it does not reach when a listener throws.
SocketCloses(i, failed) ==
    /\ sockets[i] # "CLOSED"
    /\ timers < MaxTimers
    /\ sockets' = [sockets EXCEPT ![i] = "CLOSED"]
    /\ LET er == IF failed THEN Emit(listeners, "ws_error", [kind |-> "error"])
                 ELSE [reg |-> listeners, threw |-> FALSE, log |-> NoEmit]
           cl == Emit(er.reg, "ws_disconnected", [kind |-> "true"])
       IN /\ listeners' = cl.reg
          /\ lastEmit' = cl.log
          /\ timers' = IF cl.threw THEN timers ELSE timers + 1
          /\ HandleEmit(cl.log)
    /\ UNCHANGED <<config, connectionStatus, req, ws, disconnected>>

\* onmessage of socket i: JSON.parse(event.data), then
\* emit(message.type, message.data), all inside try/catch. A frame that is
\* no JSON, or is the JSON null, throws before the emit.
OnMessage(i, frame) ==
    /\ sockets[i] = "OPEN"
    /\ frame.type = "alert" => Len(useAlerts.alerts) < MaxAlerts
    /\ IF frame.kind \in {"object", "partial"}
       THEN \E data \in IF frame.kind = "object" THEN PayloadsOf(frame.type)
                         ELSE {Undefined} :
                LET em == Emit(listeners, frame.type, data)
                IN /\ listeners' = em.reg
                   /\ lastEmit' = [em.log EXCEPT !.frame = frame.kind, !.escaped = FALSE]
                   /\ HandleEmit(em.log)
       ELSE /\ UNCHANGED <<listeners, hookVars>>
            /\ lastEmit' = [NoEmit EXCEPT !.frame = frame.kind]
    /\ UNCHANGED <<config, connectionStatus, req, streamVars>>

\* --------------------------------------------------- hooks: lifecycle
\* A hook is mounted with its component (the effect runs: it registers the
\* handlers and starts the first fetch) and unmounted with it (the effect's
\* cleanup runs). A mount makes a new component instance, whose state
\* starts from the useState initial values; the state of an unmounted
\* instance is kept as it was left. inflight holds the fetches of the
\* mounted instance that await their response, stale those of instances
\* unmounted since.

\* useState initial values
InitConnectionStatus == [mounted |-> FALSE, status |-> Null]

InitPlantTelemetry ==
    [mounted |-> FALSE, plantId |-> "none", data |-> Null, loading |-> FALSE,
     error |-> Null, lastUpdated |-> Null, inflight |-> <<>>, stale |-> <<>>]

InitSystemHealth ==
    [mounted |-> FALSE, data |-> Null, loading |-> TRUE, error |-> Null,
     interval |-> FALSE, inflight |-> 0, stale |-> 0]

InitAlerts ==
    [mounted |-> FALSE, autoRefresh |-> FALSE, alerts |-> <<>>, loading |-> TRUE,
     error |-> Null, inflight |-> 0, stale |-> 0]

InitWebSocket == [mounted |-> FALSE, isConnected |-> FALSE]

\* how a fetch of a hook ends: request() resolves to a success result with
\* data ("ok"), resolves to a failure result, or rejects
Outcomes == {"ok", "failure", "rejected"}

\* the error a hook sets after a fetch that ended without data
FetchError(outcome) == [kind |-> "error", of |-> outcome]

\* useConnectionStatus is mounted
MountConnectionStatus ==
    /\ ~useConnectionStatus.mounted
    /\ useConnectionStatus' = [mounted |-> TRUE, status |-> StatusData(connectionStatus)]
    /\ listeners' = OnReg(listeners, "connection_status", "handleStatusChange")
    /\ lastEmit' = NoEmit
    /\ UNCHANGED <<config, connectionStatus, req, streamVars, usePlantTelemetry,
                   useSystemHealth, useAlerts, useWebSocket>>

\* useConnectionStatus is unmounted
UnmountConnectionStatus ==
    /\ useConnectionStatus.mounted
    /\ useConnectionStatus' = [useConnectionStatus EXCEPT !.mounted = FALSE]
    /\ listeners' = OffReg(listeners, "connection_status", "handleStatusChange")
    /\ lastEmit' = NoEmit
    /\ UNCHANGED <<config, connectionStatus, req, streamVars, usePlantTelemetry,
                   useSystemHealth, useAlerts, useWebSocket>>

\* fetchData() up to its await: setLoading(true), setError(null) and the
\* call of getPlantTelemetry(plantId)
FetchDataStarted(h) ==
    [h EXCEPT !.loading = TRUE, !.error = Null, !.inflight = Append(@, h.plantId)]

\* usePlantTelemetry(plantId) is mounted
MountPlantTelemetry(plantId) ==
    /\ ~usePlantTelemetry.mounted
    /\ Len(usePlantTelemetry.stale) < MaxInflight
    /\ usePlantTelemetry' =
           FetchDataStarted([InitPlantTelemetry EXCEPT
                                 !.mounted = TRUE, !.plantId = plantId,
                                 !.stale = usePlantTelemetry.stale])
    /\ listeners' = OnReg(listeners, "telemetry", "handleTelemetryUpdate")
    /\ lastEmit' = NoEmit
    /\ UNCHANGED <<config, connectionStatus, req, streamVars, useConnectionStatus,
                   useSystemHealth, useAlerts, useWebSocket>>

\* usePlantTelemetry is unmounted
UnmountPlantTelemetry ==
    /\ usePlantTelemetry.mounted
    /\ usePlantTelemetry' =
           [usePlantTelemetry EXCEPT !.mounted = FALSE, !.inflight = <<>>,
                                     !.stale = @ \o usePlantTelemetry.inflight]
    /\ listeners' = OffReg(listeners, "telemetry", "handleTelemetryUpdate")
    /\ lastEmit' = NoEmit
    /\ UNCHANGED <<config, connectionStatus, req, streamVars, useConnectionStatus,
                   useSystemHealth, useAlerts, useWebSocket>>

\* the component calls the refetch the hook returned
RefetchPlantTelemetry ==
    /\ usePlantTelemetry.mounted
    /\ Len(usePlantTelemetry.inflight) + Len(usePlantTelemetry.stale) < MaxInflight
    /\ usePlantTelemetry' = FetchDataStarted(usePlantTelemetry)
    /\ lastEmit' = NoEmit
    /\ UNCHANGED <<config, connectionStatus, listeners, req, streamVars,
                   useConnectionStatus, useSystemHealth, useAlerts, useWebSocket>>

\* the component renders usePlantTelemetry with another plantId: fetchData
\* and the effect are made anew, the cleanup of the old effect runs, then
\* the new effect (fetchData() for the new plant, the handler registered
\* again); the state of the instance and its fetches in flight stay
ChangePlantId(plantId) ==
    /\ usePlantTelemetry.mounted
    /\ plantId # usePlantTelemetry.plantId
    /\ Len(usePlantTelemetry.inflight) + Len(usePlantTelemetry.stale)
           < MaxInflight + MaxSuperseded
    /\ usePlantTelemetry' =
           FetchDataStarted([usePlantTelemetry EXCEPT !.plantId = plantId])
    /\ listeners' = OnReg(OffReg(listeners, "telemetry", "handleTelemetryUpdate"),
                          "telemetry", "handleTelemetryUpdate")
    /\ lastEmit' = NoEmit
    /\ UNCHANGED <<config, connectionStatus, req, streamVars, useConnectionStatus,
                   useSystemHealth, useAlerts, useWebSocket>>

\* the success results getPlantTelemetry(plantId) can resolve to: the
\* plant's telemetry as data, and the timestamp request() always sets
TelemetryResponses(plantId) ==
    {[data |-> [kind |-> "telemetry", src |-> "fetch", id |-> plantId, v |-> v],
      timestamp |-> "set"] : v \in Versions}

\* a fetchData() that drops the data it held when the fetch brings none
PlantTelemetrySettledClears(h, live, outcome, response) ==
    LET set == IF outcome = "ok"
               THEN [h EXCEPT !.data = SetState(live, @, response.data),
                              !.lastUpdated =
                                  SetState(live, @, Stamp("response", response.data))]
               ELSE [h EXCEPT !.error = SetState(live, @, FetchError(outcome)),
                              !.data = SetState(live, @, Null),
                              !.lastUpdated = SetState(live, @, Null)]
    IN [set EXCEPT !.loading = SetState(live, @, FALSE)]

\* fetchData() after its await, in a component instance that is mounted
\* (live) or not
PlantTelemetrySettled(h, live, outcome, response) ==
    LET set == IF outcome = "ok"
               THEN [h EXCEPT !.data = SetState(live, @, response.data),
                              !.lastUpdated =
                                  SetState(live, @,
                                           Stamp(IF response.timestamp = "set"
                                                 THEN "response" ELSE "now",
                                                 response.data))]
               ELSE [h EXCEPT !.error = SetState(live, @, FetchError(outcome))]
    IN [set EXCEPT !.loading = SetState(live, @, FALSE)]

\* the k-th fetch of usePlantTelemetry awaiting its response (of the mounted
\* instance if live, else of an unmounted one) gets it
PlantTelemetryFetchSettles(live, k, outcome) ==
    LET pending == IF live THEN usePlantTelemetry.inflight ELSE usePlantTelemetry.stale
    IN /\ k \in 1..Len(pending)
       /\ \E response \in TelemetryResponses(pending[k]) :
              LET h == PlantTelemetrySettled(usePlantTelemetry, live, outcome, response)
              IN usePlantTelemetry' =
                     IF live THEN [h EXCEPT !.inflight = Splice(@, k)]
                     ELSE [h EXCEPT !.stale = Splice(@, k)]
       /\ lastEmit' = NoEmit
       /\ UNCHANGED <<config, connectionStatus, listeners, req, streamVars,
                      useConnectionStatus, useSystemHealth, useAlerts, useWebSocket>>

\* fetchHealth() up to its await: setError(null), getSystemHealth()
FetchHealthStarted(h) == [h EXCEPT !.error = Null, !.inflight = @ + 1]

\* useSystemHealth(refreshInterval) is mounted; polls: refreshInterval > 0
MountSystemHealth(polls) ==
    /\ ~useSystemHealth.mounted
    /\ useSystemHealth.stale < MaxInflight
    /\ useSystemHealth' =
           FetchHealthStarted([InitSystemHealth EXCEPT
                                   !.mounted = TRUE, !.interval = polls,
                                   !.stale = useSystemHealth.stale])
    /\ listeners' = OnReg(listeners, "system_status", "handleSystemUpdate")
    /\ lastEmit' = NoEmit
    /\ UNCHANGED <<config, connectionStatus, req, streamVars, useConnectionStatus,
                   usePlantTelemetry, useAlerts, useWebSocket>>

\* the cleanup of useSystemHealth without its clearInterval
UnmountSystemHealthKeepsInterval ==
    /\ useSystemHealth.mounted
    /\ useSystemHealth' =
           [useSystemHealth EXCEPT !.mounted = FALSE, !.inflight = 0,
                                   !.stale = @ + useSystemHealth.inflight]
    /\ listeners' = OffReg(listeners, "system_status", "handleSystemUpdate")
    /\ lastEmit' = NoEmit
    /\ UNCHANGED <<config, connectionStatus, req, streamVars, useConnectionStatus,
                   usePlantTelemetry, useAlerts, useWebSocket>>

\* useSystemHealth is unmounted: clearInterval, off
UnmountSystemHealth ==
    /\ useSystemHealth.mounted
    /\ useSystemHealth' =
           [useSystemHealth EXCEPT !.mounted = FALSE, !.interval = FALSE,
                                   !.inflight = 0,
                                   !.stale = @ + useSystemHealth.inflight]
    /\ listeners' = OffReg(listeners, "system_status", "handleSystemUpdate")
    /\ lastEmit' = NoEmit
    /\ UNCHANGED <<config, connectionStatus, req, streamVars, useConnectionStatus,
                   usePlantTelemetry, useAlerts, useWebSocket>>

\* the interval timer of useSystemHealth fires: fetchHealth()
PollTimerFires ==
    /\ useSystemHealth.interval
    /\ useSystemHealth.inflight + useSystemHealth.stale < MaxInflight
    /\ useSystemHealth' = FetchHealthStarted(useSystemHealth)
    /\ lastEmit' = NoEmit
    /\ UNCHANGED <<config, connectionStatus, listeners, req, streamVars,
                   useConnectionStatus, usePlantTelemetry, useAlerts, useWebSocket>>

\* the data getSystemHealth() can resolve to
HealthResponses == {[kind |-> "health", src |-> "fetch", v |-> v] : v \in Versions}

\* fetchHealth() after its await
SystemHealthSettled(h, live, outcome, data) ==
    LET set == IF outcome = "ok"
               THEN [h EXCEPT !.data = SetState(live, @, data)]
               ELSE [h EXCEPT !.error = SetState(live, @, FetchError(outcome))]
    IN [set EXCEPT !.loading = SetState(live, @, FALSE)]

\* a fetch of useSystemHealth awaiting its response gets it
SystemHealthFetchSettles(live, outcome) ==
    /\ IF live THEN useSystemHealth.inflight > 0 ELSE useSystemHealth.stale > 0
    /\ \E data \in HealthResponses :
           LET h == SystemHealthSettled(useSystemHealth, live, outcome, data)
           IN useSystemHealth' =
                  IF live THEN [h EXCEPT !.inflight = @ - 1]
                  ELSE [h EXCEPT !.stale = @ - 1]
    /\ lastEmit' = NoEmit
    /\ UNCHANGED <<config, connectionStatus, listeners, req, streamVars,
                   useConnectionStatus, usePlantTelemetry, useAlerts, useWebSocket>>

\* useAlerts(autoRefresh) is mounted: fetchAlerts() up to its await, and
\* the handler if autoRefresh
MountAlerts(autoRefresh) ==
    /\ ~useAlerts.mounted
    /\ useAlerts.stale < MaxInflight
    /\ useAlerts' = [InitAlerts EXCEPT !.mounted = TRUE, !.autoRefresh = autoRefresh,
                                       !.inflight = 1, !.stale = useAlerts.stale]
    /\ listeners' = IF autoRefresh THEN OnReg(listeners, "alert", "handleNewAlert")
                    ELSE listeners
    /\ lastEmit' = NoEmit
    /\ UNCHANGED <<config, connectionStatus, req, streamVars, useConnectionStatus,
                   usePlantTelemetry, useSystemHealth, useWebSocket>>

\* useAlerts is unmounted: the effect returned a cleanup only if autoRefresh
UnmountAlerts ==
    /\ useAlerts.mounted
    /\ useAlerts' = [useAlerts EXCEPT !.mounted = FALSE, !.inflight = 0,
                                      !.stale = @ + useAlerts.inflight]
    /\ listeners' = IF useAlerts.autoRefresh
                    THEN OffReg(listeners, "alert", "handleNewAlert")
                    ELSE listeners
    /\ lastEmit' = NoEmit
    /\ UNCHANGED <<config, connectionStatus, req, streamVars, useConnectionStatus,
                   usePlantTelemetry, useSystemHealth, useWebSocket>>

\* the component calls the refetch useAlerts returned: fetchAlerts() up to
\* its await
RefetchAlerts ==
    /\ useAlerts.mounted
    /\ useAlerts.inflight + useAlerts.stale < MaxInflight
    /\ useAlerts' = [useAlerts EXCEPT !.error = Null, !.inflight = @ + 1]
    /\ lastEmit' = NoEmit
    /\ UNCHANGED <<config, connectionStatus, listeners, req, streamVars,
                   useConnectionStatus, usePlantTelemetry, useSystemHealth,
                   useWebSocket>>

\* the lists getAlerts() can resolve to
AlertsResponses ==
    {<<>>} \cup {<<[kind |-> "alert", src |-> "fetch", id |-> a]>> : a \in AlertIds}

\* fetchAlerts() after its await
AlertsSettled(h, live, outcome, data) ==
    LET set == IF outcome = "ok"
               THEN [h EXCEPT !.alerts = SetState(live, @, data)]
               ELSE [h EXCEPT !.error = SetState(live, @, FetchError(outcome))]
    IN [set EXCEPT !.loading = SetState(live, @, FALSE)]

\* a fetch of useAlerts awaiting its response gets it
AlertsFetchSettles(live, outcome) ==
    /\ IF live THEN useAlerts.inflight > 0 ELSE useAlerts.stale > 0
    /\ \E data \in AlertsResponses :
           LET h == AlertsSettled(useAlerts, live, outcome, data)
           IN useAlerts' = IF live THEN [h EXCEPT !.inflight = @ - 1]
                           ELSE [h EXCEPT !.stale = @ - 1]
    /\ lastEmit' = NoEmit
    /\ UNCHANGED <<config, connectionStatus, listeners, req, streamVars,
                   useConnectionStatus, usePlantTelemetry, useSystemHealth,
                   useWebSocket>>

\* useWebSocket is mounted: two handlers, then apiClient.connectWebSocket()
MountWebSocket ==
    /\ ~useWebSocket.mounted
    /\ ConnectReturnsEarly \/ Len(sockets) < MaxSockets
    /\ useWebSocket' = [InitWebSocket EXCEPT !.mounted = TRUE]
    /\ listeners' = OnReg(OnReg(listeners, "ws_connected", "handleConnected"),
                          "ws_disconnected", "handleDisconnected")
    /\ ConnectBody
    /\ disconnected' = FALSE
    /\ lastEmit' = NoEmit
    /\ UNCHANGED <<config, connectionStatus, timers, req, useConnectionStatus,
                   usePlantTelemetry, useSystemHealth, useAlerts>>

\* useWebSocket is unmounted: the handlers go, the socket stays
UnmountWebSocket ==
    /\ useWebSocket.mounted
    /\ useWebSocket' = [useWebSocket EXCEPT !.mounted = FALSE]
    /\ listeners' = OffReg(OffReg(listeners, "ws_connected", "handleConnected"),
                           "ws_disconnected", "handleDisconnected")
    /\ lastEmit' = NoEmit
    /\ UNCHANGED <<config, connectionStatus, req, streamVars, useConnectionStatus,
                   usePlantTelemetry, useSystemHealth, useAlerts>>

\* connectWebSocket() called with the socket list socks and this.ws = w:
\* the list and this.ws it leaves
ConnectResult(socks, w) ==
    IF ~config.wsUrl \/ (w # 0 /\ socks[w] = "OPEN")
    THEN [sockets |-> socks, ws |-> w]
    ELSE [sockets |-> Append(socks, "CONNECTING"), ws |-> Len(socks) + 1]

\* Page is mounted; its effects run in the order of its hooks: the effect of
\* useWebSocket (two handlers, connectWebSocket()), the effect of
\* useConnectionStatus, and Page's own effect, which calls connect() when
\* process.env.NEXT_PUBLIC_ENABLE_WEBSOCKET === 'true' (enabled)
MountPage(enabled) ==
    LET hook == ConnectResult(sockets, ws)
        page == IF enabled THEN ConnectResult(hook.sockets, hook.ws) ELSE hook
    IN  /\ ~useWebSocket.mounted
        /\ ~useConnectionStatus.mounted
        /\ Len(page.sockets) <= MaxSockets
        /\ useWebSocket' = [InitWebSocket EXCEPT !.mounted = TRUE]
        /\ useConnectionStatus' =
               [mounted |-> TRUE, status |-> StatusData(connectionStatus)]
        /\ listeners' =
               OnReg(OnReg(OnReg(listeners, "ws_connected", "handleConnected"),
                           "ws_disconnected", "handleDisconnected"),
                     "connection_status", "handleStatusChange")
        /\ sockets' = page.sockets
        /\ ws' = page.ws
        /\ disconnected' = FALSE
        /\ lastEmit' = NoEmit
        /\ UNCHANGED <<config, connectionStatus, timers, req, usePlantTelemetry,
                       useSystemHealth, useAlerts>>

\* Page is unmounted: the cleanups of its two hooks run; Page's own effect
\* has none
UnmountPage ==
    /\ useWebSocket.mounted
    /\ useConnectionStatus.mounted
    /\ useWebSocket' = [useWebSocket EXCEPT !.mounted = FALSE]
    /\ useConnectionStatus' = [useConnectionStatus EXCEPT !.mounted = FALSE]
    /\ listeners' =
           OffReg(OffReg(OffReg(listeners, "ws_connected", "handleConnected"),
                         "ws_disconnected", "handleDisconnected"),
                  "connection_status", "handleStatusChange")
    /\ lastEmit' = NoEmit
    /\ UNCHANGED <<config, connectionStatus, req, streamVars, usePlantTelemetry,
                   useSystemHealth, useAlerts>>

\* ------------------------------------------------------- specification
\* export const apiClient = new ApiClient(defaultConfig): wsUrl is always
\* set (the environment's value or 'ws://localhost:8000/ws')
defaultConfig == [retryAttempts |-> 3, wsUrl |-> TRUE]

\* new ApiClient(config), for any configuration
Init ==
    /\ config \in [retryAttempts : 0..MaxRetry, wsUrl : BOOLEAN]
    /\ connectionStatus = [connected |-> FALSE, latency |-> 0, errorCount |-> 0]
    /\ listeners = <<>>
    /\ ws = 0
    /\ sockets = <<>>
    /\ timers = 0
    /\ req = IdleRequest
    /\ lastEmit = NoEmit
    /\ disconnected = FALSE
    /\ useConnectionStatus = InitConnectionStatus
    /\ usePlantTelemetry = InitPlantTelemetry
    /\ useSystemHealth = InitSystemHealth
    /\ useAlerts = InitAlerts
    /\ useWebSocket = InitWebSocket

BusNext ==
    \/ \E e \in EventTypes, cb \in Callbacks : On(e, cb)
    \/ \E e \in EventTypes, cb \in Callbacks : Off(e, cb)

RequestNext ==
    \/ StartRequest
    \/ Tick
    \/ FetchRejects
    \/ \E ok \in BOOLEAN, latency \in Latencies : FetchResolves(ok, latency)
    \/ \E good \in BOOLEAN : JsonSettles(good)
    \/ BackoffElapsed

StreamNext ==
    \/ ConnectWebSocket
    \/ DisconnectWebSocket
    \/ ReconnectTimerFires
    \/ \E i \in 1..Len(sockets) : SocketOpens(i)
    \/ \E i \in 1..Len(sockets), failed \in BOOLEAN : SocketCloses(i, failed)
    \/ \E i \in 1..Len(sockets), frame \in Frames : OnMessage(i, frame)

Next == BusNext \/ RequestNext \/ StreamNext

\* The whole client, for any configuration.
FullSpec == Init /\ [][Next]_vars

\* The event bus and the stream manager of the singleton client; no request
\* is made. Collaborators subscribe to the events the stream hooks of
\* use-api.ts subscribe to; frames of every type arrive.
StreamEvents == {"telemetry", "ws_connected", "ws_disconnected"}

StreamBusNext ==
    \/ \E e \in StreamEvents, cb \in Callbacks : On(e, cb)
    \/ \E e \in StreamEvents, cb \in Callbacks : Off(e, cb)

StreamSpecNext == StreamBusNext \/ StreamNext

\* the singleton: new ApiClient(defaultConfig)
SingletonInit == Init /\ config = defaultConfig

Spec == SingletonInit /\ [][StreamSpecNext]_vars

\* The request executor, for every retryAttempts, with the listeners of the
\* one event it emits; the stream stays unconnected.
StatusBusNext ==
    \/ \E cb \in Callbacks : On("connection_status", cb)
    \/ \E cb \in Callbacks : Off("connection_status", cb)

RequestSpecNext == StatusBusNext \/ RequestNext

RequestSpec == Init /\ [][RequestSpecNext]_vars

\* The event bus alone: collaborators subscribe to and unsubscribe from
\* the stream events.
BusSpec == SingletonInit /\ [][StreamBusNext]_vars

\* The stream manager alone, with no listener registered.
SocketSpec == SingletonInit /\ [][StreamNext]_vars

\* The dispatch of telemetry frames to collaborators that subscribe,
\* unsubscribe and, called back, unregister themselves or register cbNew.
DispatchNext ==
    \/ \E cb \in DispatchCallbacks : Subscribe(cb)
    \/ \E cb \in DispatchCallbacks \cup {"cbNew"} : Off("telemetry", cb)
    \/ ConnectWebSocket
    \/ \E i \in 1..Len(sockets) : SocketOpens(i)
    \/ \E i \in 1..Len(sockets) : OnMessage(i, TelemetryFrame)

DispatchSpec == SingletonInit /\ [][DispatchNext]_vars

\* The request executor and the stream manager of the singleton together,
\* with no listener registered and without the clock of the fetch.
ClientNext ==
    \/ StartRequest
    \/ FetchRejects
    \/ \E ok \in BOOLEAN, latency \in Latencies : FetchResolves(ok, latency)
    \/ \E good \in BOOLEAN : JsonSettles(good)
    \/ BackoffElapsed
    \/ ConnectWebSocket
    \/ DisconnectWebSocket
    \/ ReconnectTimerFires
    \/ \E i \in 1..Len(sockets) : SocketOpens(i)
    \/ \E i \in 1..Len(sockets), failed \in BOOLEAN : SocketCloses(i, failed)

ClientSpec == SingletonInit /\ [][ClientNext]_vars

\* usePlantTelemetry and useSystemHealth over the stream: the hooks are
\* mounted and unmounted, their fetches get responses, the socket opens and
\* delivers frames of the two resources (and frames that are not JSON).
ResourceFrames ==
    {f \in Frames : f.type \in {"telemetry", "system_status", "none"}}

PlantTelemetryNext ==
    \/ \E plantId \in PlantIds : MountPlantTelemetry(plantId)
    \/ UnmountPlantTelemetry
    \/ RefetchPlantTelemetry
    \/ \E live \in BOOLEAN, k \in 1..MaxInflight, outcome \in Outcomes :
           PlantTelemetryFetchSettles(live, k, outcome)

SystemHealthNext ==
    \/ \E polls \in BOOLEAN : MountSystemHealth(polls)
    \/ UnmountSystemHealth
    \/ PollTimerFires
    \/ \E live \in BOOLEAN, outcome \in Outcomes : SystemHealthFetchSettles(live, outcome)

PushNext ==
    \/ ConnectWebSocket
    \/ \E i \in 1..Len(sockets) : SocketOpens(i)
    \/ \E i \in 1..Len(sockets), frame \in ResourceFrames : OnMessage(i, frame)

TelemetrySpec == SingletonInit /\ [][PlantTelemetryNext \/ PushNext]_vars

ResourceSpec ==
    SingletonInit /\ [][PlantTelemetryNext \/ SystemHealthNext \/ PushNext]_vars

\* usePlantTelemetry rendered with a plantId that changes while the hook
\* stays mounted, over the stream.
PlantChangeNext ==
    \/ \E plantId \in PlantIds : MountPlantTelemetry(plantId)
    \/ UnmountPlantTelemetry
    \/ \E plantId \in PlantIds : ChangePlantId(plantId)
    \/ \E live \in BOOLEAN, k \in 1..(MaxInflight + MaxSuperseded),
          outcome \in Outcomes : PlantTelemetryFetchSettles(live, k, outcome)

PlantChangeSpec == SingletonInit /\ [][PlantChangeNext \/ PushNext]_vars

\* The three hooks that fetch, without the stream: they are mounted and
\* unmounted, fetch again, and their fetches end in every way.
AlertsNext ==
    \/ \E autoRefresh \in BOOLEAN : MountAlerts(autoRefresh)
    \/ UnmountAlerts
    \/ RefetchAlerts
    \/ \E live \in BOOLEAN, outcome \in Outcomes : AlertsFetchSettles(live, outcome)

FetchSpec ==
    SingletonInit /\ [][PlantTelemetryNext \/ SystemHealthNext \/ AlertsNext]_vars

\* The application built without NEXT_PUBLIC_ENABLE_WEBSOCKET = 'true':
\* Page is mounted and unmounted, and whatever socket exists opens, closes,
\* delivers frames and is reconnected by the timer of onclose.
PageNext ==
    \/ MountPage(FALSE)
    \/ UnmountPage
    \/ ReconnectTimerFires
    \/ \E i \in 1..Len(sockets) : SocketOpens(i)
    \/ \E i \in 1..Len(sockets), failed \in BOOLEAN : SocketCloses(i, failed)
    \/ \E i \in 1..Len(sockets), frame \in Frames : OnMessage(i, frame)

PageSpec == SingletonInit /\ [][PageNext]_vars

\* The application built with the flag set to 'true'.
PageEnabledNext ==
    \/ MountPage(TRUE)
    \/ UnmountPage
    \/ ReconnectTimerFires
    \/ \E i \in 1..Len(sockets) : SocketOpens(i)
    \/ \E i \in 1..Len(sockets), failed \in BOOLEAN : SocketCloses(i, failed)
    \/ \E i \in 1..Len(sockets), frame \in Frames : OnMessage(i, frame)

PageEnabledSpec == SingletonInit /\ [][PageEnabledNext]_vars

\* useAlerts over the stream: the hook is mounted and unmounted, the fetch
\* of its effect gets its response, and the socket delivers alert frames.
\* refetch is never called, so every fetch of a mounted instance was issued
\* by the effect, before the handler of pushes was registered.
AlertFrames == {f \in Frames : f.kind = "object" /\ f.type = "alert"}

AlertsPushNext ==
    \/ \E autoRefresh \in BOOLEAN : MountAlerts(autoRefresh)
    \/ UnmountAlerts
    \/ \E live \in BOOLEAN, outcome \in Outcomes : AlertsFetchSettles(live, outcome)
    \/ ConnectWebSocket
    \/ \E i \in 1..Len(sockets) : SocketOpens(i)
    \/ \E i \in 1..Len(sockets), frame \in AlertFrames : OnMessage(i, frame)

AlertsSpec == SingletonInit /\ [][AlertsPushNext]_vars

\* useWebSocket over the stream manager: the hook is mounted and unmounted
\* and asks for the socket, which opens, closes and is reconnected by the
\* timer of onclose; the component connects and disconnects through the
\* functions the hook returns.
WebSocketNext ==
    \/ MountWebSocket
    \/ UnmountWebSocket
    \/ useWebSocket.mounted /\ ConnectWebSocket
    \/ useWebSocket.mounted /\ DisconnectWebSocket
    \/ ReconnectTimerFires
    \/ \E i \in 1..Len(sockets) : SocketOpens(i)
    \/ \E i \in 1..Len(sockets), failed \in BOOLEAN : SocketCloses(i, failed)

WebSocketSpec == SingletonInit /\ [][WebSocketNext]_vars

\* The five hooks mounted and unmounted any number of times while the
\* backend is down: every fetch ends without data, and the socket that
\* useWebSocket asks for may open.
LifecycleNext ==
    \/ MountConnectionStatus
    \/ UnmountConnectionStatus
    \/ \E plantId \in PlantIds : MountPlantTelemetry(plantId)
    \/ UnmountPlantTelemetry
    \/ \E live \in BOOLEAN, k \in 1..MaxInflight :
           PlantTelemetryFetchSettles(live, k, "rejected")
    \/ \E polls \in BOOLEAN : MountSystemHealth(polls)
    \/ UnmountSystemHealth
    \/ PollTimerFires
    \/ \E live \in BOOLEAN : SystemHealthFetchSettles(live, "rejected")
    \/ \E autoRefresh \in BOOLEAN : MountAlerts(autoRefresh)
    \/ UnmountAlerts
    \/ \E live \in BOOLEAN : AlertsFetchSettles(live, "rejected")
    \/ MountWebSocket
    \/ UnmountWebSocket
    \/ \E i \in 1..Len(sockets) : SocketOpens(i)

LifecycleSpec == SingletonInit /\ [][LifecycleNext]_vars

\* ------------------------------------------------------------- type check
TypeOK ==
    /\ config \in [retryAttempts : 0..MaxRetry, wsUrl : BOOLEAN]
    /\ connectionStatus.connected \in BOOLEAN
    /\ connectionStatus.latency \in Latencies
    /\ connectionStatus.errorCount \in 0..(MaxErrors + MaxRetry + 2)
    /\ DOMAIN listeners \subseteq EventTypes
    /\ \A e \in DOMAIN listeners :
           \A k \in 1..Len(listeners[e]) :
               listeners[e][k] \in Callbacks \cup HookHandlers \cup {"cbOnNew", "cbNew"}
    /\ Registered(listeners) <= MaxListeners + MaxSubscribers + 1
                                    + Cardinality(HookHandlers)
    /\ ws \in 0..Len(sockets)
    /\ Len(sockets) <= MaxSockets
    /\ \A i \in 1..Len(sockets) : sockets[i] \in ReadyStates
    /\ timers \in 0..MaxTimers
    /\ req.pc \in {"idle", "fetching", "decoding", "backoff", "done"}
    /\ req.attempt \in 0..config.retryAttempts
    /\ req.result \in {"none", "success", "failure", "rejected"}
    /\ lastEmit.event \in EventTypes \cup {"other", "none"}
    /\ disconnected \in BOOLEAN

\* ------------------------------------------------------------------ claims
\* number of sockets of the client that are connecting or open
LiveSockets == Cardinality({i \in 1..Len(sockets) : sockets[i] \in {"CONNECTING", "OPEN"}})

\* s ends with the sequence t
EndsWith(s, t) ==
    Len(s) >= Len(t) /\ SubSeq(s, Len(s) - Len(t) + 1, Len(s)) = t

\* the listeners registered after the first throwing one
AfterThrower(lst) == SubSeq(lst, IndexOf(lst, "cbThrows") + 1, Len(lst))

\* C1: a request whose every attempt fails (transport error or non-2xx
\* response) makes exactly retryAttempts + 1 fetch attempts, never more, and
\* then returns a failure result.
C1_ExactlyNPlusOneThenFailure ==
    /\ req.fetches <= config.retryAttempts + 1
    /\ (req.pc = "done" /\ ~req.got2xx) =>
           (req.fetches = config.retryAttempts + 1 /\ req.result = "failure")

\* The count of C1 alone: a request that ended without a 2xx response made
\* exactly retryAttempts + 1 fetch attempts, however it ended.
AttemptsExact ==
    /\ req.fetches <= config.retryAttempts + 1
    /\ (req.pc = "done" /\ ~req.got2xx) => req.fetches = config.retryAttempts + 1

\* C2: request() never rejects: whatever the fetch, the decoding and the
\* connection_status listeners do, it resolves to a success or failure result.
C2_NeverRejects == req.pc = "done" => req.result \in {"success", "failure"}

\* C3: an emit in which no listener throws delivers to every listener that
\* was registered when it started, exactly once each and in registration
\* order, even if a listener unregisters during the dispatch.
C3_DeliversToSnapshot ==
    (lastEmit.event # "none" /\ ~lastEmit.threw) => lastEmit.delivered = lastEmit.snapshot

\* C4: when a listener throws during an emit, every listener registered
\* after it for the same event still receives that emit.
C4_ThrowIsIsolated ==
    lastEmit.threw =>
        /\ EndsWith(lastEmit.delivered, AfterThrower(lastEmit.snapshot))
        /\ Len(lastEmit.delivered) > Len(AfterThrower(lastEmit.snapshot))

\* C5: after disconnectWebSocket(), and until connectWebSocket() is called
\* explicitly, no socket is created: the disconnect leaves no reconnect
\* timer pending, and no later step (the close event of the disconnect
\* included) sets one or creates a socket.
C5_NoReconnectAfterDisconnect ==
    [][disconnected' => (timers' = 0 /\ Len(sockets') = Len(sockets))]_vars

\* C6: connectWebSocket() while the current socket is connecting or open
\* creates no socket and changes no state of the client.
C6_ConnectIsIdempotent ==
    [][(ConnectWebSocket /\ ws # 0 /\ sockets[ws] \in {"CONNECTING", "OPEN"}) =>
           UNCHANGED <<ws, sockets, timers, listeners, connectionStatus>>]_vars

\* C7: in every reachable state at most one socket created by the client is
\* connecting or open.
C7_AtMostOneLiveSocket == LiveSockets <= 1

\* C8: handling a frame that is not valid JSON lets no exception escape the
\* handler and closes no socket, and a valid telemetry frame received next
\* is delivered to every telemetry subscriber.
C8_MalformedThenTelemetry ==
    [][\A i \in 1..Len(sockets) :
           /\ OnMessage(i, MalformedFrame) =>
                  (~lastEmit'.escaped /\ sockets' = sockets /\ ws' = ws)
           /\ (lastEmit.frame = "malformed" /\ OnMessage(i, TelemetryFrame)) =>
                  (~lastEmit'.escaped /\ lastEmit'.delivered = Get(listeners, "telemetry"))]_vars

\* The part of C8 that is about the malformed frame itself: handling it
\* changes nothing of the client and no exception leaves the handler.
MalformedFrameIsDropped ==
    [][\A i \in 1..Len(sockets) :
           OnMessage(i, MalformedFrame) =>
               (~lastEmit'.escaped /\ lastEmit'.delivered = <<>>
                   /\ UNCHANGED <<listeners, connectionStatus, streamVars>>)]_vars

\* C9: a frame that parses as JSON but does not match the Envelope shape
\* (type outside the four envelope types, or a missing member) is dropped:
\* no listener of any event type is invoked for it.
C9_NonEnvelopeDropped ==
    (lastEmit.frame = "partial" \/ (lastEmit.frame = "object" /\ lastEmit.event \notin EnvelopeTypes))
        => lastEmit.delivered = <<>>

\* C10: every attempt is bounded by the configured timeout: no fetch stays
\* in flight for longer than config.timeout.
C10_AttemptBoundedByTimeout == req.pc = "fetching" => req.elapsed <= Timeout

\* C14: the wait after failed attempt i (from 0) is 1000 * 2^i ms, the waits
\* are strictly increasing, none follows the last attempt, and with
\* retryAttempts = 3 a request that does not succeed has waited 1000, 2000
\* and 4000 ms and then returns a failure result.
C14_BackoffThenFailure ==
    /\ \A i \in 1..Len(req.delays) : req.delays[i] = BackoffBase * Pow2(i - 1)
    /\ \A i \in 1..(Len(req.delays) - 1) : req.delays[i] < req.delays[i + 1]
    /\ Len(req.delays) <= config.retryAttempts
    /\ (req.pc = "done" /\ req.result # "success"
           /\ config.retryAttempts = defaultConfig.retryAttempts) =>
           /\ req.delays = <<BackoffBase, 2 * BackoffBase, 4 * BackoffBase>>
           /\ req.result = "failure"

\* The waits of C14 alone: their values, their order and their number, up
\* to the end of a request that did not succeed, however it ended.
BackoffDelaysExact ==
    /\ \A i \in 1..Len(req.delays) : req.delays[i] = BackoffBase * Pow2(i - 1)
    /\ \A i \in 1..(Len(req.delays) - 1) : req.delays[i] < req.delays[i + 1]
    /\ Len(req.delays) = req.attempt + (IF req.pc = "backoff" THEN 1 ELSE 0)
    /\ (req.pc = "done" /\ req.result # "success") =>
           Len(req.delays) = config.retryAttempts

C16_ConnectWhileOpenCreatesNone ==
    [][(ConnectWebSocket /\ WsIsOpen) =>
           (sockets' = sockets /\ ws' = ws /\ WsIsOpen')]_vars

\* the only socket is the current one and open, and the last task (a
\* connect call, or a subscription) emitted nothing
C16_Witness ==
    /\ WsIsOpen
    /\ Len(sockets) = 1
    /\ ~disconnected
    /\ lastEmit = NoEmit

\* C17: when an attempt succeeds (a 2xx response whose body decodes),
\* ConnectionStatus becomes connected with errorCount 0, one
\* connection_status event carrying that status is emitted, and the request
\* returns a success result without a further attempt.
C17_SuccessResetsAndReturns ==
    [][/\ (\E latency \in Latencies : FetchResolves(TRUE, latency)) =>
              /\ req'.pc = "decoding"
              /\ connectionStatus'.connected /\ connectionStatus'.errorCount = 0
              /\ lastEmit'.event = "connection_status"
              /\ lastEmit'.data = StatusData(connectionStatus')
       /\ JsonSettles(TRUE) =>
              /\ req'.pc = "done" /\ req'.result = "success"
              /\ req'.fetches = req.fetches
              /\ connectionStatus'.connected /\ connectionStatus'.errorCount = 0]_vars

\* C18: every failed attempt (transport error, non-2xx response, undecodable
\* body) leaves errorCount one larger than it was before the attempt ended.
C18_EveryFailureCounts ==
    [][(\/ FetchRejects
        \/ \E latency \in Latencies : FetchResolves(FALSE, latency)
        \/ JsonSettles(FALSE)) =>
           connectionStatus'.errorCount = connectionStatus.errorCount + 1]_vars

\* the request ends here without a success
Exhausts == req.pc # "done" /\ req'.pc = "done" /\ req'.result # "success"

\* C19: when the attempts are exhausted ConnectionStatus is left with
\* connected = false, the last event of the request is a connection_status
\* carrying connected = false, and a failure result that is returned carries
\* the error the last attempt ended with: the transport error, the HTTP
\* error of a non-2xx response (or the exception a connection_status
\* listener threw at that response), or the decoding error.
C19_ExhaustionPublishesLastError ==
    [][/\ Exhausts =>
              /\ ~connectionStatus'.connected
              /\ lastEmit'.event = "connection_status"
              /\ lastEmit'.data = StatusData(connectionStatus')
       /\ (Exhausts /\ req'.result = "failure") =>
              /\ FetchRejects => req'.error = "network"
              /\ \A ok \in BOOLEAN, latency \in Latencies :
                     FetchResolves(ok, latency) =>
                         req'.error =
                             IF UpdateConnectionStatus(connectionStatus, listeners,
                                                       TRUE, latency).threw
                             THEN "listener" ELSE "http"
              /\ JsonSettles(FALSE) => req'.error = "json"]_vars

\* a failure result after at least one retry, carrying the error of the
\* last attempt, with the status published as not connected
C19_Witness ==
    /\ req.pc = "done" /\ req.result = "failure"
    /\ req.attempt >= 1
    /\ req.error = "json"
    /\ ~connectionStatus.connected
    /\ lastEmit.event = "connection_status" /\ ~lastEmit.data.connected

\* the number of handlers the mounted hooks have registered for event e
Mounted(e) ==
    CASE e = "connection_status" -> IF useConnectionStatus.mounted THEN 1 ELSE 0
      [] e = "telemetry" -> IF usePlantTelemetry.mounted THEN 1 ELSE 0
      [] e = "system_status" -> IF useSystemHealth.mounted THEN 1 ELSE 0
      [] e = "alert" -> IF useAlerts.mounted /\ useAlerts.autoRefresh THEN 1 ELSE 0
      [] e \in {"ws_connected", "ws_disconnected"} ->
             IF useWebSocket.mounted THEN 1 ELSE 0
      [] OTHER -> 0

\* C11: the cleanup of every hook unregisters the listeners the hook
\* registered and clears its poll timer: the list of every event holds just
\* the handlers of the hooks mounted now, so after any number of mounts and
\* unmounts it is as long as before the first mount, and the interval timer
\* is pending only while useSystemHealth is mounted.
C11_DeactivationReleases ==
    /\ \A e \in EventTypes : Len(Get(listeners, e)) = Mounted(e)
    /\ useSystemHealth.interval => useSystemHealth.mounted

\* every hook has been mounted (its events have a list) and is unmounted
\* again, useWebSocket for the second time at least
C11_Witness ==
    /\ ~useConnectionStatus.mounted /\ ~usePlantTelemetry.mounted
    /\ ~useSystemHealth.mounted /\ ~useAlerts.mounted /\ ~useWebSocket.mounted
    /\ DOMAIN listeners = {"connection_status", "telemetry", "system_status", "alert",
                           "ws_connected", "ws_disconnected"}
    /\ Len(sockets) = MaxSockets
    /\ useSystemHealth.stale > 0

\* the snapshot a hook returns
PlantTelemetrySnapshot(h) == <<h.data, h.error, h.loading, h.lastUpdated>>
SystemHealthSnapshot(h) == <<h.data, h.error, h.loading>>

OneDelivery(h) ==
    IF h.data = Null THEN h.lastUpdated = Null
    ELSE h.lastUpdated # Null /\ h.lastUpdated.of = h.data

\* C13: a push and a fetch response for the same resource are applied one
\* after the other, each in full: after each (a push handed to the hook's
\* handler, a response to the mounted hook) the data is the delivery just
\* applied, and data and lastUpdated never come from two deliveries.
\* (useSystemHealth keeps no lastUpdated: its data is the last delivery.)
C13_LastDeliveryWins ==
    [][/\ OneDelivery(usePlantTelemetry')
       /\ (/\ Invoked(lastEmit', "telemetry", "handleTelemetryUpdate")
           /\ lastEmit'.frame = "object"
           /\ lastEmit'.data.id = usePlantTelemetry.plantId) =>
              /\ usePlantTelemetry'.data = lastEmit'.data
              /\ usePlantTelemetry'.lastUpdated.of = lastEmit'.data
       /\ (/\ Invoked(lastEmit', "system_status", "handleSystemUpdate")
           /\ lastEmit'.frame = "object") =>
              useSystemHealth'.data = lastEmit'.data
       /\ \A k \in 1..MaxInflight :
              PlantTelemetryFetchSettles(TRUE, k, "ok") =>
                  /\ usePlantTelemetry'.data \in
                         {r.data : r \in TelemetryResponses(usePlantTelemetry.plantId)}
                  /\ usePlantTelemetry'.lastUpdated.of = usePlantTelemetry'.data
       /\ SystemHealthFetchSettles(TRUE, "ok") =>
              useSystemHealth'.data \in HealthResponses]_vars

\* the fetch of the mounted hook has been answered and the data is a push
\* for the same plant, with the push's timestamp
C13_Witness ==
    /\ usePlantTelemetry.mounted
    /\ usePlantTelemetry.inflight = <<>>
    /\ ~usePlantTelemetry.loading /\ usePlantTelemetry.error = Null
    /\ usePlantTelemetry.data # Null
    /\ usePlantTelemetry.data.src = "push"
    /\ usePlantTelemetry.lastUpdated = Stamp("payload", usePlantTelemetry.data)

\* C20: a push is applied to usePlantTelemetry only when update.id is the
\* hook's plantId; it then replaces the data and sets lastUpdated to the
\* time of its arrival, not to the timestamp of the payload; a push for
\* another plant leaves the snapshot unchanged.
C20_PushStampedOnArrival ==
    [][\A i \in 1..Len(sockets) :
           (OnMessage(i, TelemetryFrame) /\ usePlantTelemetry.mounted) =>
               IF lastEmit'.data.id = usePlantTelemetry.plantId
               THEN /\ usePlantTelemetry'.data = lastEmit'.data
                    /\ usePlantTelemetry'.lastUpdated = Stamp("now", lastEmit'.data)
               ELSE usePlantTelemetry' = usePlantTelemetry]_vars

\* What the handler does: the filter and the replacement of C20, with
\* lastUpdated set to the timestamp the payload carries.
PushStampedByPayload ==
    [][\A i \in 1..Len(sockets) :
           (OnMessage(i, TelemetryFrame) /\ usePlantTelemetry.mounted) =>
               IF lastEmit'.data.id = usePlantTelemetry.plantId
               THEN /\ usePlantTelemetry'.data = lastEmit'.data
                    /\ usePlantTelemetry'.lastUpdated = Stamp("payload", lastEmit'.data)
               ELSE usePlantTelemetry' = usePlantTelemetry]_vars

C22_LossSchedulesReconnect ==
    [][\A i \in 1..Len(sockets), failed \in BOOLEAN :
           (/\ SocketCloses(i, failed)
            /\ sockets[i] \in {"CONNECTING", "OPEN"}
            /\ ~disconnected) =>
               /\ lastEmit'.event = "ws_disconnected"
               /\ timers' = timers + 1]_vars

\* What onclose does: the event is always emitted, and the timer is set
\* when no ws_disconnected listener throws.
ReconnectScheduledUnlessThrow ==
    [][\A i \in 1..Len(sockets), failed \in BOOLEAN :
           (/\ SocketCloses(i, failed)
            /\ sockets[i] \in {"CONNECTING", "OPEN"}
            /\ ~disconnected) =>
               /\ lastEmit'.event = "ws_disconnected"
               /\ ~lastEmit'.threw => timers' = timers + 1]_vars

\* C23: the stream manager updates ConnectionStatus: when the current
\* socket opens the connected flag becomes true, and when it closes or
\* fails the flag is false.
C23_StreamLossReflected ==
    [][\A i \in 1..Len(sockets) :
           /\ (SocketOpens(i) /\ i = ws) => connectionStatus'.connected
           /\ \A failed \in BOOLEAN :
                  (SocketCloses(i, failed) /\ i = ws) => ~connectionStatus'.connected]_vars

\* What the socket handlers do to ConnectionStatus: nothing.
StreamLeavesStatusAlone ==
    [][\A i \in 1..Len(sockets) :
           /\ SocketOpens(i) => connectionStatus' = connectionStatus
           /\ \A failed \in BOOLEAN :
                  SocketCloses(i, failed) => connectionStatus' = connectionStatus]_vars

\* the current socket is closed and the status still says connected
C23_StaleConnected ==
    /\ ws # 0 /\ sockets[ws] = "CLOSED"
    /\ lastEmit.event = "ws_disconnected"
    /\ connectionStatus.connected

\* cb is in the sequence lst
In(cb, lst) == \E k \in 1..Len(lst) : lst[k] = cb

\* C24: a listener that a callback registers during an emit of the same
\* event is not invoked in that delivery pass, and is invoked by the emits
\* of that event that start with it registered.
C24_RegisteredDuringEmitWaits ==
    lastEmit.event = "telemetry" =>
        /\ ~In("cbNew", lastEmit.snapshot) => ~In("cbNew", lastEmit.delivered)
        /\ In("cbNew", lastEmit.snapshot) => In("cbNew", lastEmit.delivered)

\* What forEach gives while no listener unregisters during the pass: the
\* listeners of the snapshot, and not the one registered meanwhile.
NewListenerWaitsUnlessOff ==
    (lastEmit.event = "telemetry" /\ ~In("cbOffSelf", lastEmit.snapshot)) =>
        /\ lastEmit.delivered = lastEmit.snapshot
        /\ ~In("cbNew", lastEmit.snapshot) => ~In("cbNew", lastEmit.delivered)

\* C25: when NEXT_PUBLIC_ENABLE_WEBSOCKET is not 'true', mounting the page
\* and its hooks creates no stream socket.
C25_FlagOffMountCreatesNoSocket ==
    [][(~useWebSocket.mounted /\ useWebSocket'.mounted) => sockets' = sockets]_vars

\* What the code does with the flag off: the effect of useWebSocket calls
\* connectWebSocket() whatever the flag says, so a mount creates exactly one
\* socket unless the stream is already open.
FlagOffMountCreatesOne ==
    [][(~useWebSocket.mounted /\ useWebSocket'.mounted) =>
           IF WsIsOpen THEN sockets' = sockets
           ELSE sockets' = Append(sockets, "CONNECTING")]_vars

\* the last emit of the task published connected = true
PublishedConnected ==
    lastEmit'.event = "connection_status" /\ lastEmit'.data.connected

\* C26: an attempt that receives a non-2xx response never publishes
\* connected = true and never resets errorCount.
C26_Non2xxNeverConnects ==
    [][(\E latency \in Latencies : FetchResolves(FALSE, latency)) =>
           /\ ~PublishedConnected
           /\ connectionStatus'.errorCount > connectionStatus.errorCount]_vars

\* What holds: an attempt whose fetch rejects publishes no connected = true
\* and counts one more error; only a response, of whatever status, resets.
RejectedFetchNeverConnects ==
    [][FetchRejects =>
           /\ ~PublishedConnected
           /\ connectionStatus'.errorCount = connectionStatus.errorCount + 1]_vars

\* C27: whenever the data of usePlantTelemetry is non-null it belongs to the
\* plant currently asked for; a response for a plant asked for earlier is
\* not applied.
C27_DataOfRequestedPlant ==
    (usePlantTelemetry.mounted /\ usePlantTelemetry.data # Null) =>
        usePlantTelemetry.data.id = usePlantTelemetry.plantId

\* What holds: handleTelemetryUpdate tests update.id, so a push never puts
\* the telemetry of another plant into data.
PushOfOtherPlantIgnored ==
    [][(Invoked(lastEmit', "telemetry", "handleTelemetryUpdate")
        /\ lastEmit'.data # Undefined
        /\ lastEmit'.data.id # usePlantTelemetry.plantId) =>
           usePlantTelemetry'.data = usePlantTelemetry.data]_vars

\* The second half of C27 alone: while the plant asked for stays the same,
\* nothing new is put into data but telemetry of that plant.
LateResponseNotApplied ==
    [][(/\ usePlantTelemetry.mounted
        /\ usePlantTelemetry'.mounted
        /\ usePlantTelemetry'.plantId = usePlantTelemetry.plantId
        /\ usePlantTelemetry'.data # usePlantTelemetry.data) =>
           usePlantTelemetry'.data.id = usePlantTelemetry.plantId]_vars

\* no two entries of the list have the same id
NoDuplicateIds(list) ==
    \A j, k \in 1..Len(list) : j # k => list[j].id # list[k].id

\* every alert of list has an entry of the same id in after
KeepsAlerts(list, after) ==
    \A j \in 1..Len(list) : \E k \in 1..Len(after) : after[k].id = list[j].id

\* the fetch of the mounted useAlerts gets its response in this step
AlertsFetchArrives ==
    /\ useAlerts.mounted
    /\ useAlerts'.mounted
    /\ useAlerts'.inflight < useAlerts.inflight

\* C28: delivering the same alert push twice leaves no two entries with the
\* same id, and a pushed alert is not lost when a fetch response issued
\* before the push resolves after it.
C28_PushIdempotentAndKept ==
    [][/\ NoDuplicateIds(useAlerts'.alerts)
       /\ AlertsFetchArrives => KeepsAlerts(useAlerts.alerts, useAlerts'.alerts)]_vars

\* The two halves of C28, each alone.
PushTwiceNoDuplicate == NoDuplicateIds(useAlerts.alerts)

PushedAlertSurvivesFetch ==
    [][AlertsFetchArrives => KeepsAlerts(useAlerts.alerts, useAlerts'.alerts)]_vars

\* What the code does: handleNewAlert prepends whatever arrives, and a
\* response with data replaces the whole list.
PushPrependsFetchReplaces ==
    [][/\ Invoked(lastEmit', "alert", "handleNewAlert") =>
              useAlerts'.alerts = <<lastEmit'.data>> \o useAlerts.alerts
       /\ (AlertsFetchArrives /\ useAlerts'.alerts # useAlerts.alerts) =>
              useAlerts'.alerts \in AlertsResponses]_vars

\* no socket has an event pending: none is connecting, none is closing
Quiescent == \A i \in 1..Len(sockets) : sockets[i] \in {"OPEN", "CLOSED"}

\* C29: once pending events are delivered, the isConnected of a mounted
\* useWebSocket equals whether the client's stream socket is open, also for
\* an instance mounted after the socket opened.
C29_IsConnectedMatchesSocket ==
    (useWebSocket.mounted /\ Quiescent) =>
        (useWebSocket.isConnected <=> WsIsOpen)

\* What holds: isConnected of an instance that stays mounted is what the
\* last of the two events it heard said, and false before it heard any.
IsConnectedFollowsEvents ==
    [][/\ (~useWebSocket.mounted /\ useWebSocket'.mounted) =>
              ~useWebSocket'.isConnected
       /\ (useWebSocket.mounted /\ useWebSocket'.mounted) =>
              useWebSocket'.isConnected =
                  IF lastEmit'.event = "ws_connected" THEN TRUE
                  ELSE IF lastEmit'.event = "ws_disconnected" THEN FALSE
                  ELSE useWebSocket.isConnected]_vars

\* a frame was parsed and handed to emit, which called back a listener
FrameDispatched ==
    lastEmit.frame \in {"object", "partial"} /\ lastEmit.delivered # <<>>

\* C30: after disconnectWebSocket() and until the next connectWebSocket()
\* every socket the client created is closed or closing, and no inbound
\* frame is dispatched to a listener.
C30_DisconnectSilencesStream ==
    disconnected =>
        /\ \A i \in 1..Len(sockets) : sockets[i] \in {"CLOSING", "CLOSED"}
        /\ ~FrameDispatched

\* What holds: disconnectWebSocket() closes the socket this.ws refers to
\* and forgets it.
DisconnectClosesCurrent ==
    [][(~disconnected /\ disconnected') =>
           /\ ws' = 0
           /\ ws # 0 => sockets'[ws] \in {"CLOSING", "CLOSED"}
           /\ \A i \in 1..Len(sockets) : i # ws => sockets'[i] = sockets[i]]_vars

====
